---- MODULE Spec2Model ----
(***************************************************************************)
(* Model of pq::core::ConnectionPool and pq::core::PooledConnection        *)
(* (src/src/core/ConnectionPool.cpp, src/include/pq/core/ConnectionPool.hpp)*)
(*                                                                         *)
(* Every critical section of the code (the statements executed between     *)
(* taking state_->mutex and giving it up) is one action.  The unlocked     *)
(* calls createConnection() and validateConnection() and the blocking      *)
(* cv.wait_until() are separate program positions of the calling thread.   *)
(*                                                                         *)
(* pq::core::Connection and pq::core::Transaction (Connection.cpp,         *)
(* Transaction.cpp) are modelled next to the pool: Spec runs the pool,     *)
(* TxSpec runs one Connection and the Transaction objects on it.           *)
(***************************************************************************)
EXTENDS Integers, Sequences, FiniteSets, TLC

\* ---- bounds of the model -------------------------------------------------
NumThreads == 2
MaxMaxSize == 2
MaxMinSize == 2
MaxRes == 2
MaxTx == 1

Threads == 1..NumThreads

\* the PooledConnection objects of the program: object t > 0 is the one
\* thread t stores the result of its acquire() in, object 0 lives elsewhere
Leases == 0..NumThreads

NoConn == 0

\* state_->mutex is free
NoThread == 0

\* the Transaction objects of the program
TxObjs == 0..MaxTx

\* what the server answers to a statement
Responses == {"ok", "error"}

VARIABLES
    maxSize,            \* config_.maxSize
    validateOnAcquire,  \* config_.validateOnAcquire
    idle,               \* state_->idle (vector, back = end of the sequence)
    activeCount,        \* state_->activeCount
    pendingCreates,     \* state_->pendingCreates
    shutdown,           \* state_->shutdown
    notified,           \* threads blocked on state_->cv that notify_* has picked
    pc,                 \* position of each thread inside acquire()
    conn,               \* acquire(): local `conn` (lines 100-123)
    deadlinePassed,     \* steady_clock::now() >= deadline of the running call
    lease,              \* lease[l]: the members of PooledConnection object l
    nextId,             \* identity of the next Connection the factory makes
    poolAlive,          \* the ConnectionPool object has not been destroyed
    mutex,              \* the thread that holds state_->mutex, or NoThread
    dbConn,             \* Connection::conn_ of the connection transactions use
    inTransaction,      \* Connection::inTransaction_
    tx,                 \* tx[x]: the members of Transaction object x
    lastOp              \* outcome of the last step, see Op and Quiet

vars == <<maxSize, validateOnAcquire, idle, activeCount, pendingCreates,
          shutdown, notified, pc, conn, deadlinePassed, lease, nextId,
          poolAlive, mutex, dbConn, inTransaction, tx, lastOp>>

config == <<maxSize, validateOnAcquire>>

\* the state of the pool, and the state of a Connection and its Transactions
poolVars == <<maxSize, validateOnAcquire, idle, activeCount, pendingCreates,
              shutdown, notified, pc, conn, deadlinePassed, lease, nextId,
              poolAlive, mutex>>

txVars == <<dbConn, inTransaction, tx>>

\* ---- PooledConnection ----------------------------------------------------
\* A PooledConnection is its two members: state_ (set or null) and conn_.
\* Both null: released, moved from, or no object at all.
EmptyLease == [state |-> FALSE, conn |-> NoConn]

\* PooledConnection(state, conn), lines 13-16
PooledConnection(c) == [state |-> TRUE, conn |-> c]

Holds(l) == l.conn # NoConn

\* ---- Transaction ---------------------------------------------------------
\* A Transaction is its members conn_ (set or null), committed_ and valid_
\* (Transaction.hpp 35-38).  Next to them the model records what happened to
\* the object.  guard is "open" when BEGIN succeeded in its constructor and
\* since then no commit() on it has succeeded and no rollback() was called on
\* it, "settled" when BEGIN succeeded and one of the two has happened, and
\* "none" when the object did not begin a transaction; moved: the object
\* began a transaction and was later the source of a move or the target of a
\* move assignment.  The record of a destroyed object stays until its storage
\* holds a new object.
NoTx == [alive |-> FALSE, conn |-> FALSE, committed |-> FALSE,
         valid |-> FALSE, guard |-> "none", moved |-> FALSE]

\* BEGIN succeeded in the constructor of t
Began(t) == t.guard # "none"

\* a commit() on t succeeded, or rollback() was called on t
Settle(t) == IF t.guard = "open" THEN "settled" ELSE t.guard

\* ---- helpers -------------------------------------------------------------
\* lastOp is the outcome of the last step: what a step of acquire() returned
\* to its caller (or "retry" when it discarded the connection it validated),
\* what the release() run by a step found in its PooledConnection, a
\* shutdown() that found the flag set, a drain() that found idle not empty,
\* and whether the warm-up of the constructor fell short of minSize.  For a
\* Connection and its Transactions: whether a call on the Connection
\* ("call") or on a Transaction returned a value or an error, and whether
\* the destructor of a Transaction called rollback()
Op(name, res) == [op |-> name, res |-> res]

\* a step without such an outcome
Quiet == Op("step", "none")

\* (mutant) the oldest entry is served
BackIsFront(s) == s[1]

Back(s) == s[Len(s)]

\* (mutant) the back element is read but not removed
PopBackKeeps(s) == s

PopBack(s) == SubSeq(s, 1, Len(s) - 1)

\* (mutant) the decrement is forgotten
DecFloorForgotten(n) == n

\* floor-at-zero decrement used for activeCount and pendingCreates
DecFloor(n) == IF n > 0 THEN n - 1 ELSE n

\* ConnectionPool::totalCount
totalCount == activeCount + Len(idle) + pendingCreates

\* threads blocked inside cv.wait_until that no notify has picked yet
Waiters == {t \in Threads : pc[t] = "waiting" /\ ~notified[t]}

\* cv.notify_one(): one blocked thread, if there is any, is made runnable
NotifyOne ==
    IF Waiters = {} THEN {notified}
    ELSE {[notified EXCEPT ![w] = TRUE] : w \in Waiters}

\* (mutant) shutdown wakes nobody
NotifyAllMissing == notified

\* cv.notify_all()
NotifyAll == [t \in Threads |-> notified[t] \/ pc[t] = "waiting"]

\* (mutant) the result of the probe query is not looked at
validateConnectionNoProbe(connected, probeOk) == connected

\* ConnectionPool::validateConnection, lines 197-205
validateConnection(connected, probeOk) ==
    IF ~connected THEN FALSE ELSE probeOk

\* ---- construction --------------------------------------------------------
\* ConnectionPool::ConnectionPool: minSize createConnection() calls, each
\* success pushed to idle; k is the number of successful ones.  Nothing
\* reads config_.minSize afterwards.
\* (mutant) one of the connections made is not kept
WarmUpDropsLast(k) == [i \in 1..(IF k > 0 THEN k - 1 ELSE 0) |-> i]

WarmUp(k) == [i \in 1..k |-> i]

Init ==
    /\ maxSize \in 1..MaxMaxSize
    /\ validateOnAcquire \in BOOLEAN
    /\ \E minSize \in 0..MaxMinSize : \E k \in 0..minSize :
          /\ idle = WarmUp(k)
          /\ nextId = k + 1
          /\ lastOp = Op("construct", IF k < minSize THEN "short" ELSE "full")
    /\ activeCount = 0
    /\ pendingCreates = 0
    /\ shutdown = FALSE
    /\ notified = [t \in Threads |-> FALSE]
    /\ pc = [t \in Threads |-> "idle"]
    /\ conn = [t \in Threads |-> NoConn]
    /\ deadlinePassed = [t \in Threads |-> FALSE]
    /\ lease = [l \in Leases |-> EmptyLease]
    /\ poolAlive = TRUE
    /\ mutex = NoThread
    /\ dbConn = "null"
    /\ inTransaction = FALSE
    /\ tx = [x \in TxObjs |-> NoTx]

\* ---- acquire -------------------------------------------------------------
\* taking state_->mutex (unique_lock / lock_guard constructor, lock.lock())
\* goes through when no thread holds it
CanLock == mutex = NoThread

\* (mutant) the unlock before the blocking call is missing: t keeps the mutex
unlockMissing(t) == t

\* lock.unlock() before validateConnection and createConnection (lines 104
\* and 129): who holds the mutex afterwards
unlock(t) == NoThread

\* `return DbResult<PooledConnection>::error(...)`: the locals die, the
\* unique_lock among them
ReturnError(t) ==
    /\ pc' = [pc EXCEPT ![t] = "idle"]
    /\ conn' = [conn EXCEPT ![t] = NoConn]
    /\ deadlinePassed' = [deadlinePassed EXCEPT ![t] = FALSE]
    /\ mutex' = NoThread
    /\ UNCHANGED lease

\* `lock.unlock(); return PooledConnection(state_, std::move(conn))`
ReturnLease(t, c) ==
    /\ pc' = [pc EXCEPT ![t] = "idle"]
    /\ conn' = [conn EXCEPT ![t] = NoConn]
    /\ deadlinePassed' = [deadlinePassed EXCEPT ![t] = FALSE]
    /\ mutex' = NoThread
    /\ lease' = [lease EXCEPT ![t] = PooledConnection(c)]

\* (mutant) the loop body without the ++pendingCreates of line 128
LoopBodyNoReserve(t, ac) ==
    IF idle # <<>> THEN
        /\ conn' = [conn EXCEPT ![t] = Back(idle)]
        /\ idle' = PopBack(idle)
        /\ activeCount' = ac + 1
        /\ pc' = [pc EXCEPT ![t] = "validating"]
        /\ mutex' = unlock(t)
        /\ UNCHANGED pendingCreates
    ELSE IF ac + Len(idle) + pendingCreates < maxSize THEN
        /\ activeCount' = ac
        /\ pc' = [pc EXCEPT ![t] = "creating"]
        /\ conn' = [conn EXCEPT ![t] = NoConn]
        /\ mutex' = unlock(t)
        /\ UNCHANGED <<idle, pendingCreates>>
    ELSE
        /\ activeCount' = ac
        /\ pc' = [pc EXCEPT ![t] = "waiting"]
        /\ conn' = [conn EXCEPT ![t] = NoConn]
        /\ mutex' = NoThread
        /\ UNCHANGED <<idle, pendingCreates>>

\* One pass over the body of `while (true)` with the mutex held, up to the
\* point where the thread gives the mutex up: ac is activeCount as the pass
\* finds it.
LoopBody(t, ac) ==
    IF idle # <<>> THEN
        \* lines 99-104: pop the back of idle, reserve the slot, unlock
        /\ conn' = [conn EXCEPT ![t] = Back(idle)]
        /\ idle' = PopBack(idle)
        /\ activeCount' = ac + 1
        /\ pc' = [pc EXCEPT ![t] = "validating"]
        /\ mutex' = unlock(t)
        /\ UNCHANGED pendingCreates
    ELSE IF ac + Len(idle) + pendingCreates < maxSize THEN
        \* lines 127-129: reserve a create slot, unlock
        /\ pendingCreates' = pendingCreates + 1
        /\ activeCount' = ac
        /\ pc' = [pc EXCEPT ![t] = "creating"]
        /\ conn' = [conn EXCEPT ![t] = NoConn]
        /\ mutex' = unlock(t)
        /\ UNCHANGED idle
    ELSE
        \* line 148: cv.wait_until gives the mutex up and blocks
        /\ activeCount' = ac
        /\ pc' = [pc EXCEPT ![t] = "waiting"]
        /\ conn' = [conn EXCEPT ![t] = NoConn]
        /\ mutex' = NoThread
        /\ UNCHANGED <<idle, pendingCreates>>

\* (mutant) acquire without the shutdown check of lines 91-93
AcquireStartNoCheck(t, expired) ==
    /\ poolAlive
    /\ pc[t] = "idle"
    /\ ~Holds(lease[t])
    /\ CanLock
    /\ shutdown => ~expired
    /\ LoopBody(t, activeCount)
    /\ deadlinePassed' = [deadlinePassed EXCEPT ![t] = expired]
    /\ lastOp' = Quiet
    /\ UNCHANGED <<config, txVars, poolAlive, shutdown, notified, nextId,
                   lease>>

\* acquire(timeout), lines 88-95 and the first pass of the loop.
\* expired: the timeout is zero or negative, so the deadline is not in the
\* future (line 95 is not reached when the pool is shut down).
AcquireStart(t, expired) ==
    /\ poolAlive
    /\ pc[t] = "idle"
    /\ ~Holds(lease[t])
    /\ CanLock
    /\ shutdown => ~expired
    /\ IF shutdown THEN
          /\ ReturnError(t)
          /\ lastOp' = Op("acquire", "PoolShutdown")
          /\ UNCHANGED <<idle, activeCount, pendingCreates>>
       ELSE
          /\ LoopBody(t, activeCount)
          /\ deadlinePassed' = [deadlinePassed EXCEPT ![t] = expired]
          /\ lastOp' = Quiet
          /\ UNCHANGED lease
    /\ UNCHANGED <<config, txVars, poolAlive, shutdown, notified, nextId>>

\* (mutant) the shutdown check of lines 108-113 is missing
AfterValidateNoShutdownCheck(t, connected, probeOk) ==
    /\ pc[t] = "validating"
    /\ CanLock
    /\ ~validateOnAcquire => connected
    /\ ~connected => probeOk
    /\ LET isValid == \/ ~validateOnAcquire
                      \/ validateConnection(connected, probeOk)
       IN  IF ~isValid THEN
              /\ LoopBody(t, DecFloor(activeCount))
              /\ lastOp' = Op("afterValidate", "retry")
              /\ UNCHANGED <<deadlinePassed, lease>>
           ELSE
              /\ ReturnLease(t, conn[t])
              /\ lastOp' = Op("afterValidate", "lease")
              /\ UNCHANGED <<idle, activeCount, pendingCreates>>
    /\ UNCHANGED <<config, txVars, poolAlive, shutdown, notified, nextId>>

\* lines 105-123: validateConnection runs without the mutex, then the mutex
\* is taken again (and, after `continue`, the next pass of the loop follows
\* under the same lock).  connected, probeOk: what isConnected() and the
\* probe query answer; a call that is not made answers nothing (TRUE here).
AfterValidate(t, connected, probeOk) ==
    /\ pc[t] = "validating"
    /\ CanLock
    /\ ~validateOnAcquire => connected
    /\ ~connected => probeOk
    /\ LET isValid == \/ ~validateOnAcquire
                      \/ validateConnection(connected, probeOk)
       IN  IF shutdown THEN
              /\ activeCount' = DecFloor(activeCount)
              /\ ReturnError(t)
              /\ lastOp' = Op("afterValidate", "PoolShutdown")
              /\ UNCHANGED <<idle, pendingCreates>>
           ELSE IF ~isValid THEN
              /\ LoopBody(t, DecFloor(activeCount))
              /\ lastOp' = Op("afterValidate", "retry")
              /\ UNCHANGED <<deadlinePassed, lease>>
           ELSE
              /\ ReturnLease(t, conn[t])
              /\ lastOp' = Op("afterValidate", "lease")
              /\ UNCHANGED <<idle, activeCount, pendingCreates>>
    /\ UNCHANGED <<config, txVars, poolAlive, shutdown, notified, nextId>>

\* (mutant) a failed create keeps its reservation
AfterCreateKeepsSlot(t, ok) ==
    /\ pc[t] = "creating"
    /\ CanLock
    /\ ok => nextId <= MaxRes
    /\ pendingCreates' = IF ok THEN DecFloor(pendingCreates) ELSE pendingCreates
    /\ IF ok THEN
          /\ activeCount' = activeCount + 1
          /\ ReturnLease(t, nextId)
          /\ nextId' = nextId + 1
          /\ lastOp' = Op("afterCreate", "lease")
          /\ UNCHANGED notified
       ELSE
          /\ notified' \in NotifyOne
          /\ ReturnError(t)
          /\ lastOp' = Op("afterCreate", "CreateFailed")
          /\ UNCHANGED <<activeCount, nextId>>
    /\ UNCHANGED <<config, txVars, poolAlive, idle, shutdown>>

\* (mutant) a failed create returns without cv.notify_one()
AfterCreateNoNotify(t, ok) ==
    /\ pc[t] = "creating"
    /\ CanLock
    /\ ok => nextId <= MaxRes
    /\ pendingCreates' = DecFloor(pendingCreates)
    /\ IF ok THEN
          /\ activeCount' = activeCount + 1
          /\ ReturnLease(t, nextId)
          /\ nextId' = nextId + 1
          /\ lastOp' = Op("afterCreate", "lease")
       ELSE
          /\ ReturnError(t)
          /\ lastOp' = Op("afterCreate", "CreateFailed")
          /\ UNCHANGED <<activeCount, nextId>>
    /\ UNCHANGED <<config, txVars, poolAlive, idle, shutdown, notified>>

\* (mutant) a create that comes back after the deadline is thrown away
AfterCreateChecksDeadline(t, ok) ==
    /\ pc[t] = "creating"
    /\ CanLock
    /\ ok => nextId <= MaxRes
    /\ pendingCreates' = DecFloor(pendingCreates)
    /\ IF ok /\ ~deadlinePassed[t] THEN
          /\ activeCount' = activeCount + 1
          /\ ReturnLease(t, nextId)
          /\ nextId' = nextId + 1
          /\ lastOp' = Op("afterCreate", "lease")
          /\ UNCHANGED notified
       ELSE
          /\ notified' \in NotifyOne
          /\ ReturnError(t)
          /\ lastOp' = Op("afterCreate", "CreateFailed")
          /\ UNCHANGED <<activeCount, nextId>>
    /\ UNCHANGED <<config, txVars, poolAlive, idle, shutdown>>

\* lines 130-144: createConnection runs without the mutex, then the mutex is
\* taken again.  ok: Connection::connect succeeded.
AfterCreate(t, ok) ==
    /\ pc[t] = "creating"
    /\ CanLock
    /\ ok => nextId <= MaxRes
    /\ pendingCreates' = DecFloor(pendingCreates)
    /\ IF ok THEN
          /\ activeCount' = activeCount + 1
          /\ ReturnLease(t, nextId)
          /\ nextId' = nextId + 1
          /\ lastOp' = Op("afterCreate", "lease")
          /\ UNCHANGED notified
       ELSE
          /\ notified' \in NotifyOne
          /\ ReturnError(t)
          /\ lastOp' = Op("afterCreate", "CreateFailed")
          /\ UNCHANGED <<activeCount, nextId>>
    /\ UNCHANGED <<config, txVars, poolAlive, idle, shutdown>>

\* cv.wait_until returns (lines 148-155), then the next pass of the loop.
\* The call reports cv_status::timeout exactly when the deadline has passed.
WaitReturn(t, name) ==
    /\ CanLock
    /\ notified' = [notified EXCEPT ![t] = FALSE]
    /\ IF deadlinePassed[t] THEN
          /\ ReturnError(t)
          /\ lastOp' = Op(name, "AcquireTimeout")
          /\ UNCHANGED <<idle, activeCount, pendingCreates>>
       ELSE IF shutdown THEN
          /\ ReturnError(t)
          /\ lastOp' = Op(name, "PoolShutdown")
          /\ UNCHANGED <<idle, activeCount, pendingCreates>>
       ELSE
          /\ LoopBody(t, activeCount)
          /\ lastOp' = Quiet
          /\ UNCHANGED <<deadlinePassed, lease>>
    /\ UNCHANGED <<config, txVars, poolAlive, shutdown, nextId>>

\* (mutant) an untimed wait: only a notify ends it
WakeUntimed(t) ==
    /\ pc[t] = "waiting"
    /\ notified[t]
    /\ WaitReturn(t, "wake")

\* woken by notify_one / notify_all, or because the deadline has passed
Wake(t) ==
    /\ pc[t] = "waiting"
    /\ notified[t] \/ deadlinePassed[t]
    /\ WaitReturn(t, "wake")

\* a condition variable may also wake a thread for no reason
SpuriousWake(t) ==
    /\ pc[t] = "waiting"
    /\ ~notified[t] /\ ~deadlinePassed[t]
    /\ WaitReturn(t, "spuriousWake")

\* the clock reaches the deadline of a running acquire()
Tick(t) ==
    /\ pc[t] # "idle"
    /\ ~deadlinePassed[t]
    /\ deadlinePassed' = [deadlinePassed EXCEPT ![t] = TRUE]
    /\ lastOp' = Quiet
    /\ UNCHANGED <<config, txVars, poolAlive, mutex, idle, activeCount,
                   pendingCreates, shutdown, notified, pc, conn, lease,
                   nextId>>

\* ---- PooledConnection::release and the special members ------------------
\* (mutant) release() puts a connected connection back whatever the flag says
releaseIgnoresShutdown(l, connected) ==
    IF ~Holds(l) THEN
        UNCHANGED <<activeCount, idle, notified>>
    ELSE
        /\ activeCount' = DecFloor(activeCount)
        /\ idle' = IF connected THEN Append(idle, l.conn) ELSE idle
        /\ notified' \in NotifyOne

\* (mutant) release() without the early return of lines 41-44
releaseNoEarlyReturn(l, connected) ==
    /\ activeCount' = DecFloor(activeCount)
    /\ idle' = IF ~shutdown /\ connected /\ Holds(l)
               THEN Append(idle, l.conn) ELSE idle
    /\ notified' \in NotifyOne

\* (mutant) release() puts the connection back without asking isConnected()
releaseIgnoresConnected(l, connected) ==
    IF ~Holds(l) THEN
        UNCHANGED <<activeCount, idle, notified>>
    ELSE IF l.state THEN
        /\ CanLock
        /\ activeCount' = DecFloor(activeCount)
        /\ idle' = IF ~shutdown THEN Append(idle, l.conn) ELSE idle
        /\ notified' \in NotifyOne
    ELSE
        UNCHANGED <<activeCount, idle, notified>>

\* release() of a PooledConnection with members l (lines 40-64), as far as
\* the shared state goes; connected is what conn_->isConnected() answers
\* (line 53, not reached without a connection: TRUE in the callers then).
release(l, connected) ==
    IF ~Holds(l) THEN
        \* lines 41-44
        UNCHANGED <<activeCount, idle, notified>>
    ELSE IF l.state THEN
        \* lines 46-60
        /\ CanLock
        /\ activeCount' = DecFloor(activeCount)
        /\ idle' = IF ~shutdown /\ connected THEN Append(idle, l.conn) ELSE idle
        /\ notified' \in NotifyOne
    ELSE
        UNCHANGED <<activeCount, idle, notified>>

\* what release() finds in a PooledConnection with members l
HeldTag(l) == IF Holds(l) THEN "held" ELSE "empty"

\* object l can be operated on: its thread is not inside acquire()
Free(l) == l \in Threads => pc[l] = "idle"

LeaseFrame ==
    UNCHANGED <<config, txVars, poolAlive, mutex, pendingCreates, shutdown,
                pc, conn, deadlinePassed, nextId>>

\* release() called explicitly or by ~PooledConnection (lines 32-34) on
\* object t
Release(t, connected) ==
    /\ Free(t)
    /\ ~Holds(lease[t]) => connected
    /\ release(lease[t], connected)
    /\ lease' = [lease EXCEPT ![t] = EmptyLease]
    /\ lastOp' = Op("release", HeldTag(lease[t]))
    /\ LeaseFrame

\* move constructor, lines 18-21: a new object d takes the members of s
MoveConstruct(d, s) ==
    /\ Free(d) /\ Free(s)
    /\ d # s
    /\ ~Holds(lease[d])
    /\ lease' = [lease EXCEPT ![d] = lease[s], ![s] = EmptyLease]
    /\ lastOp' = Quiet
    /\ UNCHANGED <<activeCount, idle, notified>>
    /\ LeaseFrame

\* (mutant) the move assignment overwrites the members without release()
MoveAssignNoRelease(d, s, connected) ==
    /\ Free(d) /\ Free(s)
    /\ (d = s \/ ~Holds(lease[d])) => connected
    /\ IF d # s THEN
          /\ UNCHANGED <<activeCount, idle, notified>>
          /\ lease' = [lease EXCEPT ![d] = lease[s], ![s] = EmptyLease]
          /\ lastOp' = Op("moveAssign", HeldTag(lease[d]))
       ELSE
          /\ UNCHANGED <<activeCount, idle, notified, lease>>
          /\ lastOp' = Quiet
    /\ LeaseFrame

\* operator=(PooledConnection&&), lines 23-30: d = std::move(s)
MoveAssign(d, s, connected) ==
    /\ Free(d) /\ Free(s)
    /\ (d = s \/ ~Holds(lease[d])) => connected
    /\ IF d # s THEN
          /\ release(lease[d], connected)
          /\ lease' = [lease EXCEPT ![d] = lease[s], ![s] = EmptyLease]
          /\ lastOp' = Op("moveAssign", HeldTag(lease[d]))
       ELSE
          /\ UNCHANGED <<activeCount, idle, notified, lease>>
          /\ lastOp' = Quiet
    /\ LeaseFrame

\* ---- drain and shutdown --------------------------------------------------
\* (mutant) drain() also forgets the leases that are out
DrainResetsCount ==
    /\ poolAlive
    /\ CanLock
    /\ idle' = <<>>
    /\ activeCount' = 0
    /\ lastOp' = IF idle = <<>> THEN Quiet ELSE Op("drain", "discarded")
    /\ UNCHANGED <<config, txVars, poolAlive, mutex, pendingCreates,
                   shutdown, notified, pc, conn, deadlinePassed, lease,
                   nextId>>

\* ConnectionPool::drain, lines 174-177
Drain ==
    /\ poolAlive
    /\ CanLock
    /\ idle' = <<>>
    /\ lastOp' = IF idle = <<>> THEN Quiet ELSE Op("drain", "discarded")
    /\ UNCHANGED <<config, txVars, poolAlive, mutex, activeCount,
                   pendingCreates, shutdown, notified, pc, conn,
                   deadlinePassed, lease, nextId>>

\* (mutant) a second shutdown() call switches the pool on again
ShutdownToggles ==
    /\ poolAlive
    /\ CanLock
    /\ shutdown' = ~shutdown
    /\ idle' = <<>>
    /\ notified' = NotifyAll
    /\ lastOp' = IF shutdown THEN Op("shutdown", "repeated") ELSE Quiet
    /\ UNCHANGED <<config, txVars, poolAlive, mutex, activeCount,
                   pendingCreates, pc, conn, deadlinePassed, lease, nextId>>

\* (mutant) shutdown() leaves the idle connections where they are
ShutdownKeepsIdle ==
    /\ poolAlive
    /\ CanLock
    /\ shutdown' = TRUE
    /\ notified' = NotifyAll
    /\ lastOp' = IF shutdown THEN Op("shutdown", "repeated") ELSE Quiet
    /\ UNCHANGED <<config, txVars, poolAlive, mutex, idle, activeCount,
                   pendingCreates, pc, conn, deadlinePassed, lease, nextId>>

\* ConnectionPool::shutdown, lines 179-184
Shutdown ==
    /\ poolAlive
    /\ CanLock
    /\ shutdown' = TRUE
    /\ idle' = <<>>
    /\ notified' = NotifyAll
    /\ lastOp' = IF shutdown THEN Op("shutdown", "repeated") ELSE Quiet
    /\ UNCHANGED <<config, txVars, poolAlive, mutex, activeCount,
                   pendingCreates, pc, conn, deadlinePassed, lease, nextId>>

\* ConnectionPool::~ConnectionPool, lines 80-82: shutdown() on the shared
\* state, which the PooledConnections keep alive.  A pool is destroyed when
\* no call on it is running; no call on it starts afterwards.
Destroy ==
    /\ poolAlive
    /\ CanLock
    /\ \A t \in Threads : pc[t] = "idle"
    /\ poolAlive' = FALSE
    /\ shutdown' = TRUE
    /\ idle' = <<>>
    /\ notified' = NotifyAll
    /\ lastOp' = IF shutdown THEN Op("shutdown", "repeated") ELSE Quiet
    /\ UNCHANGED <<config, txVars, mutex, activeCount, pendingCreates, pc,
                   conn, deadlinePassed, lease, nextId>>

\* ---- Connection ----------------------------------------------------------
\* dbConn is Connection::conn_: "null", or a PGconn whose PQstatus is
\* CONNECTION_OK ("ok") or anything else ("bad").
\* isConnected, Connection.cpp 80-82 and PqHandle.hpp 78-80
isConnected == dbConn = "ok"

Result(ok) == IF ok THEN "ok" ELSE "error"

\* Connection::execute(sql), lines 96-110: whether it returns a value
execute(r) == isConnected /\ r = "ok"

\* Connection::beginTransaction, lines 263-275: whether it returns a value,
\* and inTransaction_ afterwards
beginTransaction(r) ==
    IF inTransaction THEN
        [ok |-> FALSE, inTx |-> inTransaction]
    ELSE
        LET result == execute(r)
        IN  [ok |-> result, inTx |-> result]

\* Connection::commit, lines 277-289
commit(r) ==
    IF ~inTransaction THEN
        [ok |-> FALSE, inTx |-> inTransaction]
    ELSE
        LET result == execute(r)
        IN  [ok |-> result, inTx |-> IF result THEN FALSE ELSE inTransaction]

\* Connection::rollback, lines 291-303
rollback(r) ==
    IF ~inTransaction THEN
        [ok |-> FALSE, inTx |-> inTransaction]
    ELSE
        LET result == execute(r)
        IN  [ok |-> result, inTx |-> IF result THEN FALSE ELSE inTransaction]

\* Connection::connect, lines 60-69: conn_ is replaced by a new PGconn
Connect(good) ==
    /\ dbConn' = IF good THEN "ok" ELSE "bad"
    /\ lastOp' = Quiet
    /\ UNCHANGED <<poolVars, inTransaction, tx>>

\* Connection::disconnect, lines 75-78
Disconnect ==
    /\ dbConn' = "null"
    /\ inTransaction' = FALSE
    /\ lastOp' = Quiet
    /\ UNCHANGED <<poolVars, tx>>

\* the link breaks: PQstatus(conn_) is no longer CONNECTION_OK
LinkLost ==
    /\ dbConn = "ok"
    /\ dbConn' = "bad"
    /\ lastOp' = Quiet
    /\ UNCHANGED <<poolVars, inTransaction, tx>>

\* a call of Connection::execute by the program
Execute(r) ==
    /\ lastOp' = Op("call", Result(execute(r)))
    /\ UNCHANGED <<poolVars, txVars>>

\* Connection::executeUpdate, lines 188-194
ExecuteUpdate(r) ==
    LET result == execute(r)
    IN  /\ lastOp' = Op("call", Result(result))
        /\ UNCHANGED <<poolVars, txVars>>

\* Connection::prepare, lines 205-228
Prepare(r) ==
    /\ IF ~isConnected THEN
          lastOp' = Op("call", "error")
       ELSE
          lastOp' = Op("call", Result(r = "ok"))
    /\ UNCHANGED <<poolVars, txVars>>

\* Connection::executePrepared, lines 230-261
ExecutePrepared(r) ==
    /\ IF ~isConnected THEN
          lastOp' = Op("call", "error")
       ELSE
          lastOp' = Op("call", Result(r = "ok"))
    /\ UNCHANGED <<poolVars, txVars>>

\* a call of Connection::beginTransaction by the program
BeginTransaction(r) ==
    LET result == beginTransaction(r)
    IN  /\ inTransaction' = result.inTx
        /\ lastOp' = Op("call", Result(result.ok))
        /\ UNCHANGED <<poolVars, dbConn, tx>>

\* a call of Connection::commit by the program
Commit(r) ==
    LET result == commit(r)
    IN  /\ inTransaction' = result.inTx
        /\ lastOp' = Op("call", Result(result.ok))
        /\ UNCHANGED <<poolVars, dbConn, tx>>

\* a call of Connection::rollback by the program
Rollback(r) ==
    LET result == rollback(r)
    IN  /\ inTransaction' = result.inTx
        /\ lastOp' = Op("call", Result(result.ok))
        /\ UNCHANGED <<poolVars, dbConn, tx>>

\* ---- Transaction: the operations ----------------------------------------
\* Transaction::Transaction(Connection&), Transaction.cpp 13-19
TxConstruct(x, r) ==
    /\ ~tx[x].alive
    /\ LET result == beginTransaction(r)
       IN  /\ inTransaction' = result.inTx
           /\ tx' = [tx EXCEPT ![x] =
                        [NoTx EXCEPT !.alive = TRUE, !.conn = TRUE,
                                     !.valid = result.ok,
                                     !.guard = IF result.ok THEN "open"
                                               ELSE "none"]]
           /\ lastOp' = Op("Transaction", Result(result.ok))
    /\ UNCHANGED <<poolVars, dbConn>>

\* Transaction::Transaction(Transaction&&), lines 21-27
TxMoveConstruct(d, s) ==
    /\ d # s
    /\ ~tx[d].alive
    /\ tx[s].alive
    /\ tx' = [tx EXCEPT
                ![d] = [NoTx EXCEPT !.alive = TRUE, !.conn = tx[s].conn,
                                    !.committed = tx[s].committed,
                                    !.valid = tx[s].valid],
                ![s] = [tx[s] EXCEPT !.conn = FALSE, !.valid = FALSE,
                                     !.moved = Began(tx[s])]]
    /\ lastOp' = Quiet
    /\ UNCHANGED <<poolVars, dbConn, inTransaction>>

\* the condition under which the destructor and the move assignment call
\* conn_->rollback(), lines 31 and 47
MustRollBack(t) == t.valid /\ ~t.committed /\ t.conn

\* Transaction::operator=(Transaction&&), lines 29-44
TxMoveAssign(d, s, r) ==
    /\ tx[d].alive
    /\ tx[s].alive
    /\ ~MustRollBack(tx[d]) => r = "ok"
    /\ lastOp' = Quiet
    /\ IF d = s THEN
          UNCHANGED <<inTransaction, tx>>
       ELSE
          /\ IF MustRollBack(tx[d]) THEN
                inTransaction' = rollback(r).inTx
             ELSE
                UNCHANGED inTransaction
          /\ tx' = [tx EXCEPT
                      ![d] = [tx[d] EXCEPT !.conn = tx[s].conn,
                                           !.committed = tx[s].committed,
                                           !.valid = tx[s].valid,
                                           !.moved = Began(tx[d])],
                      ![s] = [tx[s] EXCEPT !.conn = FALSE, !.valid = FALSE,
                                           !.moved = Began(tx[s])]]
    /\ UNCHANGED <<poolVars, dbConn>>

\* Transaction::~Transaction, lines 46-51
TxDestroy(x, r) ==
    /\ tx[x].alive
    /\ ~MustRollBack(tx[x]) => r = "ok"
    /\ IF MustRollBack(tx[x]) THEN
          /\ inTransaction' = rollback(r).inTx
          /\ lastOp' = Op("~Transaction", "rollback")
       ELSE
          /\ lastOp' = Op("~Transaction", "none")
          /\ UNCHANGED inTransaction
    /\ tx' = [tx EXCEPT ![x] = [tx[x] EXCEPT !.alive = FALSE, !.conn = FALSE,
                                             !.committed = FALSE,
                                             !.valid = FALSE]]
    /\ UNCHANGED <<poolVars, dbConn>>

\* (mutant) commit() gives the guard up even when COMMIT failed
TxCommitAlwaysInvalidates(x, r) ==
    /\ tx[x].alive
    /\ IF ~tx[x].valid \/ tx[x].committed THEN
          /\ lastOp' = Op("Transaction", "error")
          /\ UNCHANGED <<inTransaction, tx>>
       ELSE
          LET result == commit(r)
          IN  /\ inTransaction' = result.inTx
              /\ tx' = [tx EXCEPT ![x] =
                           [tx[x] EXCEPT !.committed = result.ok,
                                         !.valid = FALSE,
                                         !.guard = IF result.ok
                                                   THEN Settle(tx[x])
                                                   ELSE tx[x].guard]]
              /\ lastOp' = Op("Transaction", Result(result.ok))
    /\ UNCHANGED <<poolVars, dbConn>>

\* Transaction::commit, lines 53-67
TxCommit(x, r) ==
    /\ tx[x].alive
    /\ IF ~tx[x].valid \/ tx[x].committed THEN
          /\ lastOp' = Op("Transaction", "error")
          /\ UNCHANGED <<inTransaction, tx>>
       ELSE
          LET result == commit(r)
          IN  /\ inTransaction' = result.inTx
              /\ tx' = [tx EXCEPT ![x] =
                           IF result.ok THEN
                               [tx[x] EXCEPT !.committed = TRUE,
                                             !.valid = FALSE,
                                             !.guard = Settle(tx[x])]
                           ELSE tx[x]]
              /\ lastOp' = Op("Transaction", Result(result.ok))
    /\ UNCHANGED <<poolVars, dbConn>>

\* Transaction::rollback, lines 69-80
TxRollback(x, r) ==
    /\ tx[x].alive
    /\ IF ~tx[x].valid \/ tx[x].committed THEN
          /\ lastOp' = Op("Transaction", "error")
          /\ tx' = [tx EXCEPT ![x] = [tx[x] EXCEPT
                                          !.guard = Settle(tx[x])]]
          /\ UNCHANGED inTransaction
       ELSE
          LET result == rollback(r)
          IN  /\ inTransaction' = result.inTx
              /\ tx' = [tx EXCEPT ![x] = [tx[x] EXCEPT
                                              !.valid = FALSE,
                                              !.guard = Settle(tx[x])]]
              /\ lastOp' = Op("Transaction", Result(result.ok))
    /\ UNCHANGED <<poolVars, dbConn>>

\* ---- specification -------------------------------------------------------
Next ==
    \/ \E t \in Threads :
        \/ \E expired \in BOOLEAN : AcquireStart(t, expired)
        \/ \E connected \in BOOLEAN, probeOk \in BOOLEAN :
              AfterValidate(t, connected, probeOk)
        \/ \E ok \in BOOLEAN : AfterCreate(t, ok)
        \/ Wake(t)
        \/ SpuriousWake(t)
        \/ Tick(t)
    \/ \E l \in Leases, connected \in BOOLEAN : Release(l, connected)
    \/ \E d \in Leases, s \in Leases : MoveConstruct(d, s)
    \/ \E d \in Leases, s \in Leases, connected \in BOOLEAN :
          MoveAssign(d, s, connected)
    \/ Drain
    \/ Shutdown
    \/ Destroy

Spec == Init /\ [][Next]_vars

\* Scheduling, stated for the thread the liveness properties follow (the
\* threads are interchangeable): when its wait can return it is eventually
\* run, and the clock reaches its deadline.
Fairness == WF_vars(Wake(1)) /\ WF_vars(Tick(1))

LiveSpec == Init /\ [][Next]_vars /\ Fairness

\* Scheduling without a clock: every thread inside acquire() gets to run.  A
\* thread whose wait can return again and again does return (strong
\* fairness), and createConnection() and validateConnection() come back.
FairScheduling ==
    \A t \in Threads :
        /\ SF_vars(Wake(t))
        /\ WF_vars(\E connected \in BOOLEAN, probeOk \in BOOLEAN :
                      AfterValidate(t, connected, probeOk))
        /\ WF_vars(\E ok \in BOOLEAN : AfterCreate(t, ok))

FairSpec == Init /\ [][Next]_vars /\ FairScheduling

\* A Connection and the Transactions on it, next to a pool nothing calls.
\* The Connection is default-constructed or constructed from a config, which
\* connects (Connection.cpp 52-58).
TxInit ==
    /\ maxSize = 1
    /\ validateOnAcquire = FALSE
    /\ idle = <<>>
    /\ nextId = 1
    /\ activeCount = 0
    /\ pendingCreates = 0
    /\ shutdown = FALSE
    /\ notified = [t \in Threads |-> FALSE]
    /\ pc = [t \in Threads |-> "idle"]
    /\ conn = [t \in Threads |-> NoConn]
    /\ deadlinePassed = [t \in Threads |-> FALSE]
    /\ lease = [l \in Leases |-> EmptyLease]
    /\ poolAlive = TRUE
    /\ mutex = NoThread
    /\ dbConn \in {"null", "ok", "bad"}
    /\ inTransaction = FALSE
    /\ tx = [x \in TxObjs |-> NoTx]
    /\ lastOp = Quiet

TxNext ==
    \/ \E good \in BOOLEAN : Connect(good)
    \/ Disconnect
    \/ LinkLost
    \/ \E r \in Responses :
        \/ Execute(r)
        \/ ExecuteUpdate(r)
        \/ Prepare(r)
        \/ ExecutePrepared(r)
        \/ BeginTransaction(r)
        \/ Commit(r)
        \/ Rollback(r)
    \/ \E x \in TxObjs, r \in Responses :
        \/ TxConstruct(x, r)
        \/ TxCommit(x, r)
        \/ TxRollback(x, r)
        \/ TxDestroy(x, r)
    \/ \E d \in TxObjs, s \in TxObjs : TxMoveConstruct(d, s)
    \/ \E d \in TxObjs, s \in TxObjs, r \in Responses : TxMoveAssign(d, s, r)

TxSpec == TxInit /\ [][TxNext]_vars

\* ---- properties ----------------------------------------------------------
HeldLeases == {l \in Leases : Holds(lease[l])}

Validating == {t \in Threads : pc[t] = "validating"}

\* how many places hold connection c: entries of idle, PooledConnections,
\* and the local `conn` of acquire calls that popped it
Occurrences(c) ==
    Cardinality({i \in 1..Len(idle) : idle[i] = c})
    + Cardinality({l \in Leases : lease[l].conn = c})
    + Cardinality({t \in Threads : pc[t] = "validating" /\ conn[t] = c})

Created == 1..(nextId - 1)

\* C1: in every reachable state activeCount + idle.size() + pendingCreates
\* is at most maxSize.
CapacityInvariant == totalCount <= maxSize

\* (C1) what the reservation protocol does guarantee: no step takes the total
\* above maxSize, it can only stay above it when construction put it there.
CapacityStep == [][totalCount' <= maxSize \/ totalCount' <= totalCount]_vars

\* C2: no connection is held by two PooledConnections, or by a
\* PooledConnection (or a validating acquire call) and idle, or twice in idle.
AtMostOneOwner == \A c \in Created : Occurrences(c) <= 1

AtMostOneOwnerWitness ==
    \E l \in Leases, u \in Threads :
        /\ Holds(lease[l])
        /\ pc[u] = "validating"
        /\ conn[u] # lease[l].conn

\* C3: once shutdown is true no acquire call returns a PooledConnection.
NoLeaseAfterShutdown == lastOp.res = "lease" => ~shutdown

\* C4: at no instant do more than maxSize PooledConnections hold a
\* connection.
LeasesWithinMaxSize == Cardinality(HeldLeases) <= maxSize

\* C5 as stated: a thread that is blocked in the wait when shutdown is called
\* leaves the wait with the PoolShutdown error.
ShutdownWaiterGetsPoolShutdown ==
    [][\A t \in Threads :
          (pc[t] = "waiting" /\ shutdown /\ pc'[t] # "waiting")
              => lastOp'.res = "PoolShutdown"]_vars

\* C5 amended: shutdown makes every blocked thread runnable, and such a
\* thread leaves the wait and the call with an error: PoolShutdown, or
\* AcquireTimeout when its deadline has passed by the time it runs.
ShutdownUnblocksWaiters ==
    [][\A t \in Threads :
          /\ (pc'[t] = "waiting" /\ shutdown') => notified'[t]
          /\ (pc[t] = "waiting" /\ shutdown /\ pc'[t] # "waiting")
                => /\ pc'[t] = "idle"
                   /\ ~Holds(lease'[t])
                   /\ lastOp'.res = IF deadlinePassed[t] THEN "AcquireTimeout"
                                    ELSE "PoolShutdown"]_vars

ShutdownUnblocksWaitersWitness ==
    /\ lastOp = Op("wake", "PoolShutdown")
    /\ shutdown

\* C6: an acquire call that starts when shutdown is true returns PoolShutdown
\* at once and leaves the pool, the condition variable and every thread's
\* position as they were.
AcquireAfterShutdownFails ==
    [][\A t \in Threads, expired \in BOOLEAN :
          (shutdown /\ AcquireStart(t, expired))
              => /\ lastOp' = Op("acquire", "PoolShutdown")
                 /\ UNCHANGED <<idle, activeCount, pendingCreates, shutdown,
                                notified, pc, conn, lease, nextId>>]_vars

AcquireAfterShutdownFailsWitness ==
    /\ lastOp = Op("acquire", "PoolShutdown")
    /\ activeCount > 0

\* C7: release() on a PooledConnection that holds nothing changes nothing,
\* and every release() leaves the PooledConnection holding nothing.
IdempotentRelease ==
    [][\A l \in Leases, c \in BOOLEAN :
          Release(l, c)
              => /\ lease'[l] = EmptyLease
                 /\ ~Holds(lease[l])
                       => UNCHANGED <<idle, activeCount, pendingCreates,
                                      shutdown, notified, lease>>]_vars

IdempotentReleaseWitness ==
    /\ lastOp = Op("release", "empty")
    /\ activeCount > 0
    /\ idle # <<>>

\* C8: activeCount is the number of PooledConnections that hold a connection
\* plus the number of acquire calls between popping an idle connection and
\* the end of its validation step.
ExactLeaseAccounting ==
    activeCount = Cardinality(HeldLeases) + Cardinality(Validating)

ExactLeaseAccountingWitness ==
    /\ lastOp = Op("moveAssign", "held")
    /\ Cardinality(HeldLeases) = 1
    /\ activeCount = 1
    /\ idle # <<>>

\* C9: no thread stays blocked in the wait for ever; one whose deadline has
\* passed returns from the call, and it returns AcquireTimeout without a
\* PooledConnection.
TimeoutFires ==
    /\ [][\A t \in Threads :
            (pc[t] = "waiting" /\ deadlinePassed[t] /\ pc'[t] # "waiting")
                => /\ pc'[t] = "idle"
                   /\ ~Holds(lease'[t])
                   /\ lastOp'.res = "AcquireTimeout"]_vars
    /\ (pc[1] = "waiting") ~> (pc[1] # "waiting")
    /\ (pc[1] = "waiting" /\ deadlinePassed[1]) ~> (pc[1] = "idle")

TimeoutFiresWitness ==
    /\ lastOp = Op("wake", "AcquireTimeout")
    /\ ~shutdown
    /\ idle = <<>>
    /\ totalCount = maxSize

\* C10: with validateOnAcquire, the step that gets a failed validation leaves
\* the connection in no PooledConnection and not in idle, and goes on with
\* the next pass of the loop (or returns PoolShutdown); and a connection that
\* is in no PooledConnection, not in idle and not being validated never comes
\* back.
ValidationDiscard ==
    [][/\ \A t \in Threads, connected \in BOOLEAN, probeOk \in BOOLEAN :
            (/\ pc[t] = "validating"
             /\ validateOnAcquire
             /\ ~(connected /\ probeOk)
             /\ AfterValidate(t, connected, probeOk))
                => /\ \A c \in Created : c = conn[t] => Occurrences(c)' = 0
                   /\ ~Holds(lease'[t])
                   /\ IF shutdown
                      THEN lastOp' = Op("afterValidate", "PoolShutdown")
                      ELSE /\ lastOp' = Op("afterValidate", "retry")
                           /\ pc'[t] \in {"validating", "creating", "waiting"}
       /\ \A c \in Created : Occurrences(c) = 0 => Occurrences(c)' = 0]_vars

ValidationDiscardWitness ==
    /\ lastOp = Op("afterValidate", "retry")
    /\ \E t \in Threads : pc[t] = "validating"
    /\ activeCount = 1

\* C11: once shutdown is true it stays true, whatever is called afterwards,
\* and a shutdown() call on a pool that is shut down changes nothing.
ShutdownIsTerminal ==
    [][/\ shutdown => shutdown'
       /\ (shutdown /\ Shutdown)
             => UNCHANGED <<config, poolAlive, idle, activeCount, pendingCreates,
                            shutdown, notified, pc, conn, deadlinePassed,
                            lease, nextId>>]_vars

ShutdownIsTerminalWitness ==
    /\ lastOp = Op("shutdown", "repeated")
    /\ activeCount > 0
    /\ \E t \in Threads : pc[t] = "creating"

\* C12: a destroyed pool is shut down with nothing idle, and releasing a
\* PooledConnection that holds a connection then takes one off activeCount,
\* leaves idle empty (the connection is discarded) and empties the
\* PooledConnection, touching nothing else.
ReleaseAfterPoolDestroyed ==
    /\ [](~poolAlive => (shutdown /\ idle = <<>>))
    /\ [][\A l \in Leases, c \in BOOLEAN :
            (~poolAlive /\ Holds(lease[l]) /\ Release(l, c))
                => /\ lease[l].state
                   /\ activeCount' = activeCount - 1
                   /\ activeCount' >= 0
                   /\ idle' = <<>>
                   /\ lease' = [lease EXCEPT ![l] = EmptyLease]
                   /\ UNCHANGED <<config, poolAlive, pendingCreates,
                                  shutdown, pc, conn, nextId>>]_vars

ReleaseAfterPoolDestroyedWitness ==
    /\ ~poolAlive
    /\ lastOp = Op("release", "held")
    /\ HeldLeases # {}

\* C13: when createConnection fails, that acquire call returns the error at
\* once (it neither creates again nor waits), its reservation is given back
\* and it leaves activeCount and idle as they were.
CreateFailureIsFatal ==
    [][\A t \in Threads :
          (pc[t] = "creating" /\ AfterCreate(t, FALSE))
              => /\ lastOp' = Op("afterCreate", "CreateFailed")
                 /\ pc'[t] = "idle"
                 /\ ~Holds(lease'[t])
                 /\ pendingCreates' = pendingCreates - 1
                 /\ pendingCreates' >= 0
                 /\ UNCHANGED <<activeCount, idle, shutdown, nextId>>]_vars

CreateFailureIsFatalWitness ==
    /\ lastOp = Op("afterCreate", "CreateFailed")
    /\ activeCount > 0
    /\ pendingCreates = 0

\* a PooledConnection that holds a connection is released into a pool that
\* is not shut down
ReleaseToPool ==
    \E l \in Leases, connected \in BOOLEAN :
        /\ Holds(lease[l])
        /\ ~shutdown
        /\ Release(l, connected)

\* C14: if leases keep being released to the pool, a thread blocked in the
\* wait gets out of acquire() (with a PooledConnection, or with the error of
\* its own create), unless its deadline passes or the pool is shut down
\* first.
NoWaiterStarves ==
    ([]<><<ReleaseToPool>>_vars)
        => ((pc[1] = "waiting")
              ~> (pc[1] = "idle" \/ deadlinePassed[1] \/ shutdown))

\* C15: idle is a stack.  A step in which an acquire call takes a connection
\* from idle takes the last entry, the one pushed most recently, and leaves
\* the others in place; a step that adds a connection to idle puts it last.
LifoService ==
    [][/\ \A t \in Threads :
            (/\ pc'[t] = "validating"
             /\ pc[t] # "validating" \/ conn'[t] # conn[t])
                => /\ idle # <<>>
                   /\ conn'[t] = idle[Len(idle)]
                   /\ idle' = SubSeq(idle, 1, Len(idle) - 1)
       /\ Len(idle') > Len(idle)
             => /\ Len(idle') = Len(idle) + 1
                /\ SubSeq(idle', 1, Len(idle)) = idle]_vars

\* an acquire call has been served connection 1 from idle while 2 is idle:
\* not the order of the warm-up, which pushes 1 before 2
LifoServiceWitness ==
    /\ idle = <<2>>
    /\ \E t \in Threads : pc[t] = "validating" /\ conn[t] = 1

\* C16: drain() empties idle and changes nothing else; and on a pool that is
\* not shut down, with idle empty and a slot free, the next acquire goes to
\* create a connection, and gets a PooledConnection when the create succeeds.
DrainOnlyEmptiesIdle ==
    [][/\ Drain
          => /\ idle' = <<>>
             /\ UNCHANGED <<config, poolAlive, activeCount, pendingCreates,
                            shutdown, notified, pc, conn, deadlinePassed,
                            lease, nextId>>
       /\ \A t \in Threads :
            /\ \A expired \in BOOLEAN :
                  (/\ ~shutdown
                   /\ idle = <<>>
                   /\ activeCount + pendingCreates < maxSize
                   /\ AcquireStart(t, expired))
                      => pc'[t] = "creating"
            /\ (pc[t] = "creating" /\ AfterCreate(t, TRUE))
                  => Holds(lease'[t])]_vars

DrainOnlyEmptiesIdleWitness ==
    /\ lastOp = Op("drain", "discarded")
    /\ ~shutdown
    /\ HeldLeases # {}
    /\ activeCount < maxSize

\* C17: the constructor always returns a pool: idle holds the connections
\* the warm-up could make (fewer than minSize when a create failed), nothing
\* is active or pending and the pool is not shut down.  The first acquire
\* on such a pool that finds idle empty goes to create, and a create that
\* fails is what reports the error.
WarmUpFailureNonFatal ==
    /\ [](lastOp.op = "construct"
            => /\ idle = [i \in 1..Len(idle) |-> i]
               /\ Len(idle) <= MaxMinSize
               /\ lastOp.res = "short" => Len(idle) < MaxMinSize
               /\ nextId = Len(idle) + 1
               /\ activeCount = 0
               /\ pendingCreates = 0
               /\ ~shutdown
               /\ poolAlive
               /\ \A t \in Threads : pc[t] = "idle"
               /\ HeldLeases = {})
    /\ [][\A t \in Threads :
            /\ \A expired \in BOOLEAN :
                  (/\ lastOp = Op("construct", "short")
                   /\ idle = <<>>
                   /\ AcquireStart(t, expired))
                      => pc'[t] = "creating"
            /\ (pc[t] = "creating" /\ AfterCreate(t, FALSE))
                  => /\ lastOp' = Op("afterCreate", "CreateFailed")
                     /\ pc'[t] = "idle"]_vars

WarmUpFailureNonFatalWitness ==
    /\ lastOp = Op("construct", "short")
    /\ Len(idle) = 1


\* C18 as stated: when a Transaction whose BEGIN succeeded is destroyed, its
\* destructor calls rollback() on the connection if and only if no commit()
\* on it has succeeded and rollback() was never called on it; a commit()
\* that failed leaves it to be rolled back.
TransactionGuard ==
    [][\A x \in TxObjs, r \in Responses :
          /\ (Began(tx[x]) /\ tx[x].alive /\ ~tx'[x].alive
                            /\ TxDestroy(x, r))
                => (lastOp' = Op("~Transaction", "rollback")
                       <=> tx[x].guard = "open")
          /\ (tx[x].guard = "open" /\ lastOp' = Op("Transaction", "error")
                                   /\ TxCommit(x, r))
                => (tx'[x].guard = "open" /\ MustRollBack(tx'[x]))]_vars

\* C18 (amended): the same of a Transaction whose BEGIN succeeded and that
\* was never the source of a move nor the target of a move assignment: its
\* destructor calls rollback() on the connection if and only if no commit()
\* on it has succeeded and rollback() was never called on it, and a failed
\* commit() leaves it open, to be rolled back by the destructor.
TransactionGuardUnmoved ==
    [][\A x \in TxObjs, r \in Responses :
          /\ (Began(tx[x]) /\ ~tx[x].moved /\ tx[x].alive /\ ~tx'[x].alive
                            /\ TxDestroy(x, r))
                => (lastOp' = Op("~Transaction", "rollback")
                       <=> tx[x].guard = "open")
          /\ (tx[x].guard = "open" /\ ~tx[x].moved
                                   /\ lastOp' = Op("Transaction", "error")
                                   /\ TxCommit(x, r))
                => (tx'[x].guard = "open" /\ MustRollBack(tx'[x]))]_vars

\* the only Transaction there ever was began its transaction, was never
\* committed, rolled back or moved, and its destructor has just called
\* rollback(), which ended the transaction of the connection
TransactionGuardUnmovedWitness ==
    /\ lastOp = Op("~Transaction", "rollback")
    /\ dbConn = "ok"
    /\ ~inTransaction
    /\ \E x \in TxObjs :
          /\ ~tx[x].alive /\ tx[x].guard = "open" /\ ~tx[x].moved
          /\ \A y \in TxObjs \ {x} : tx[y] = NoTx

\* C19: on a Connection that is not connected, each of execute,
\* executeUpdate, prepare, executePrepared, beginTransaction, commit and
\* rollback returns an error, and afterwards the connection is still not
\* connected and not in a transaction.
NotConnectedCallsFail ==
    [][\A r \in Responses :
          (/\ ~isConnected
           /\ \/ Execute(r) \/ ExecuteUpdate(r)
              \/ Prepare(r) \/ ExecutePrepared(r)
              \/ BeginTransaction(r) \/ Commit(r) \/ Rollback(r))
             => /\ lastOp' = Op("call", "error")
                /\ dbConn' # "ok"
                /\ ~inTransaction']_vars

\* C20: a thread inside createConnection, inside validateConnection or
\* blocked in cv.wait_until does not hold the pool mutex, and meanwhile
\* drain(), shutdown(), the release() of every PooledConnection that is not
\* the one the running acquire() will be stored in, and the acquire() of
\* every other thread that is ready to call it can take their step.
NoIoUnderLock ==
    \A t \in Threads :
        pc[t] \in {"creating", "validating", "waiting"} =>
            /\ mutex # t
            /\ ENABLED Drain
            /\ ENABLED Shutdown
            /\ \A l \in Leases :
                  Free(l) => ENABLED (\E connected \in BOOLEAN :
                                         Release(l, connected))
            /\ \A u \in Threads :
                  (pc[u] = "idle" /\ ~Holds(lease[u]))
                      => ENABLED (\E expired \in BOOLEAN :
                                     AcquireStart(u, expired))

\* one thread is inside validateConnection and another blocked in
\* cv.wait_until, and a third party has just released its lease, which put
\* the connection back into idle
NoIoUnderLockWitness ==
    /\ lastOp = Op("release", "held")
    /\ idle # <<>>
    /\ \E t \in Threads, u \in Threads :
          pc[t] = "validating" /\ pc[u] = "waiting"

\* C21: once the deadline of a running acquire() has passed, the call does
\* not start to validate another idle connection or to create a new one:
\* a step of the call that ends a validation or a wait then returns
\* without a PooledConnection.
DeadlineBoundsRetries ==
    [][\A t \in Threads :
          (pc[t] # "idle" /\ deadlinePassed[t])
             => ~(/\ pc'[t] \in {"validating", "creating"}
                  /\ pc'[t] # pc[t] \/ conn'[t] # conn[t])]_vars

\* C22: when the mutex is taken again after a validation and shutdown is
\* set, the call gives back the activeCount slot it reserved, returns
\* PoolShutdown without a PooledConnection, and the connection it popped is
\* in no PooledConnection and not in idle, whatever the validation said.
ShutdownDuringValidation ==
    [][\A t \in Threads, connected \in BOOLEAN, probeOk \in BOOLEAN :
          (/\ pc[t] = "validating"
           /\ shutdown
           /\ AfterValidate(t, connected, probeOk))
             => /\ lastOp' = Op("afterValidate", "PoolShutdown")
                /\ pc'[t] = "idle"
                /\ ~Holds(lease'[t])
                /\ activeCount > 0
                /\ activeCount' = activeCount - 1
                /\ \A c \in Created : c = conn[t] => Occurrences(c)' = 0
                /\ UNCHANGED <<idle, pendingCreates, shutdown>>]_vars

\* a call whose validation would have succeeded (validateOnAcquire is off)
\* has returned PoolShutdown; the only connection ever made is gone and
\* no slot is taken
ShutdownDuringValidationWitness ==
    /\ lastOp = Op("afterValidate", "PoolShutdown")
    /\ ~validateOnAcquire
    /\ nextId = 2
    /\ Occurrences(1) = 0
    /\ activeCount = 0

\* C23: releasing a PooledConnection that holds a connection, on a pool that
\* is not shut down, takes one off activeCount; a connection that reports
\* itself connected becomes the last entry of idle and the total count stays
\* the same; one that does not is in no PooledConnection and not in idle
\* afterwards, and the total count is one less.
ReleaseEffect ==
    [][\A l \in Leases, connected \in BOOLEAN :
          (~shutdown /\ Holds(lease[l]) /\ Release(l, connected))
             => /\ activeCount > 0
                /\ activeCount' = activeCount - 1
                /\ lease'[l] = EmptyLease
                /\ UNCHANGED pendingCreates
                /\ IF connected
                   THEN /\ idle' = Append(idle, lease[l].conn)
                        /\ totalCount' = totalCount
                   ELSE /\ idle' = idle
                        /\ totalCount' = totalCount - 1
                        /\ \A c \in Created :
                              c = lease[l].conn => Occurrences(c)' = 0]_vars

\* the only connection ever made was held, reported itself not connected
\* at its release and is gone
ReleaseEffectWitness ==
    /\ lastOp = Op("release", "held")
    /\ ~shutdown
    /\ nextId = 2
    /\ Occurrences(1) = 0
    /\ totalCount = 0

\* C24: in every reachable state in which shutdown is set idle is empty, and
\* when in addition no PooledConnection holds a connection and no acquire()
\* is running, activeCount + idle.size() + pendingCreates is 0.
IdleEmptyAfterShutdown ==
    shutdown =>
        /\ idle = <<>>
        /\ (HeldLeases = {} /\ \A t \in Threads : pc[t] = "idle")
              => totalCount = 0

\* the pool was shut down while a connection was out, and that connection
\* has just been released: it did not go back to idle
IdleEmptyAfterShutdownWitness ==
    /\ shutdown
    /\ lastOp = Op("release", "held")
    /\ HeldLeases = {}
    /\ \A t \in Threads : pc[t] = "idle"
    /\ nextId > 1

\* C25: a create that fails gives back its reservation and notifies one of
\* the threads blocked in the wait, if there is any; a notified thread can
\* leave the wait at once, and when it does so before its deadline on a pool
\* that is not shut down, with idle empty and a slot free, it reserves the
\* slot and goes on to its own createConnection.
FailedCreateWakesWaiter ==
    /\ [](\A w \in Threads :
            (pc[w] = "waiting" /\ notified[w]) => ENABLED Wake(w))
    /\ [][/\ \A t \in Threads :
              (pc[t] = "creating" /\ AfterCreate(t, FALSE))
                 => /\ pendingCreates' = pendingCreates - 1
                    /\ IF Waiters = {}
                       THEN notified' = notified
                       ELSE \E w \in Waiters :
                               notified' = [notified EXCEPT ![w] = TRUE]
          /\ \A w \in Threads :
              (/\ pc[w] = "waiting" /\ notified[w]
               /\ ~deadlinePassed[w] /\ ~shutdown
               /\ idle = <<>>
               /\ activeCount + pendingCreates < maxSize
               /\ Wake(w))
                 => /\ pc'[w] = "creating"
                    /\ pendingCreates' = pendingCreates + 1
                    /\ ~notified'[w]]_vars

\* a create has just failed, and a thread blocked in the wait is notified
\* while its deadline is ahead and a slot is free
FailedCreateWakesWaiterWitness ==
    /\ lastOp = Op("afterCreate", "CreateFailed")
    /\ ~shutdown
    /\ idle = <<>>
    /\ totalCount < maxSize
    /\ \E w \in Threads :
          pc[w] = "waiting" /\ notified[w] /\ ~deadlinePassed[w]

\* C26: the move constructor hands the members of the source to the
\* destination, empties the source and leaves the shared state alone;
\* releasing an empty PooledConnection leaves the shared state alone; the
\* move assignment releases what the destination held (one decrement of
\* activeCount, the connection to the back of idle when the pool is not
\* shut down and it is connected) and then hands over the members of the
\* source, which is left empty.
MoveTransfersOwnership ==
    [][/\ (lastOp' = Quiet /\ UNCHANGED <<pc, deadlinePassed>>)
            => \A d \in Leases, s \in Leases :
                 MoveConstruct(d, s)
                    => /\ lease'[d] = lease[s]
                       /\ lease'[s] = EmptyLease
                       /\ UNCHANGED <<activeCount, idle, pendingCreates,
                                      notified, shutdown>>
       /\ lastOp' = Op("release", "empty")
            => \A l \in Leases, connected \in BOOLEAN :
                 (~Holds(lease[l]) /\ Release(l, connected))
                    => /\ lease'[l] = EmptyLease
                       /\ UNCHANGED <<activeCount, idle, pendingCreates,
                                      notified, shutdown>>
       /\ lastOp'.op = "moveAssign"
            => \A d \in Leases, s \in Leases, connected \in BOOLEAN :
                 (d # s /\ MoveAssign(d, s, connected))
                    => /\ lease'[d] = lease[s]
                       /\ lease'[s] = EmptyLease
                       /\ UNCHANGED <<pendingCreates, shutdown>>
                       /\ IF Holds(lease[d])
                          THEN /\ activeCount > 0
                               /\ activeCount' = activeCount - 1
                               /\ idle' = IF ~shutdown /\ connected
                                          THEN Append(idle, lease[d].conn)
                                          ELSE idle
                          ELSE UNCHANGED <<activeCount, idle, notified>>]_vars

\* object 0 held connection 1 and was assigned a PooledConnection holding
\* connection 2: it holds 2 now, 1 is back in idle, one lease is counted
MoveTransfersOwnershipWitness ==
    /\ lastOp = Op("moveAssign", "held")
    /\ lease[0] = PooledConnection(2)
    /\ HeldLeases = {0}
    /\ idle = <<1>>
    /\ activeCount = 1

\* C27: in every reachable state in which the pool is not shut down, some
\* thread is blocked in the wait and no blocked thread has been notified,
\* there is nothing a blocked thread could use: idle is empty and no slot
\* is free (activeCount + pendingCreates is maxSize, or more where
\* construction overfilled the pool).
NoLostWakeup ==
    (/\ ~shutdown
     /\ \E t \in Threads : pc[t] = "waiting"
     /\ \A t \in Threads : pc[t] = "waiting" => ~notified[t])
        => (idle = <<>> /\ activeCount + pendingCreates >= maxSize)

\* C28: right after the constructor has returned, idle.size() <= maxSize
\* (and so activeCount + idle.size() + pendingCreates <= maxSize), whatever
\* the configuration, minSize > maxSize included.
ConstructionWithinCapacity ==
    lastOp.op = "construct" => (Len(idle) <= maxSize /\ totalCount <= maxSize)

\* C29: the deadline is looked at by the wait only.  An acquire() that
\* starts with its deadline already passed, on a pool that is not shut down,
\* validates an idle connection if there is one, else creates if a slot is
\* free, else waits; a validation that succeeds and a create that succeeds
\* return a PooledConnection also after the deadline; a call enters the
\* wait only with idle empty and no slot free, and AcquireTimeout is returned
\* from the wait only.
TimeoutBoundsOnlyWaiting ==
    [][\A t \in Threads :
          /\ (~shutdown /\ AcquireStart(t, TRUE))
                => pc'[t] = IF idle # <<>> THEN "validating"
                            ELSE IF activeCount + pendingCreates < maxSize
                            THEN "creating"
                            ELSE "waiting"
          /\ \A connected \in BOOLEAN, probeOk \in BOOLEAN :
                (/\ deadlinePassed[t] /\ ~shutdown
                 /\ ~validateOnAcquire \/ (connected /\ probeOk)
                 /\ AfterValidate(t, connected, probeOk))
                   => lease'[t] = PooledConnection(conn[t])
          /\ (deadlinePassed[t] /\ AfterCreate(t, TRUE))
                => lease'[t] = PooledConnection(nextId)
          /\ (pc[t] # "waiting" /\ pc'[t] = "waiting")
                => (idle' = <<>> /\ activeCount' + pendingCreates' >= maxSize)
          /\ (pc[t] # "idle" /\ pc'[t] = "idle"
                             /\ lastOp'.res = "AcquireTimeout")
                => pc[t] = "waiting"]_vars

\* an acquire() whose deadline has passed has gone through a validation
\* that failed and is inside createConnection, next to a lease that is out
TimeoutBoundsOnlyWaitingWitness ==
    /\ lastOp = Op("afterValidate", "retry")
    /\ ~shutdown
    /\ HeldLeases # {}
    /\ \E t \in Threads : pc[t] = "creating" /\ deadlinePassed[t]

\* C30: the floor-at-zero guards are never exercised.  pendingCreates is
\* always the number of acquire() calls inside createConnection, so it is
\* positive whenever a call gives its reservation back; activeCount is
\* positive whenever a lease is out or a call is validating, so it is
\* positive at every decrement of release() and of the rollbacks of
\* acquire(); and every such decrement takes exactly one off.
FloorGuardsNeverExercised ==
    /\ [](/\ pendingCreates = Cardinality({t \in Threads : pc[t] = "creating"})
          /\ (HeldLeases # {} \/ Validating # {}) => activeCount > 0)
    /\ [][/\ lastOp' = Op("release", "held")
               => \A l \in Leases, connected \in BOOLEAN :
                    (Holds(lease[l]) /\ Release(l, connected))
                       => (activeCount > 0 /\ activeCount' = activeCount - 1)
          /\ lastOp' = Op("moveAssign", "held")
               => \A d \in Leases, s \in Leases, connected \in BOOLEAN :
                    (d # s /\ Holds(lease[d]) /\ MoveAssign(d, s, connected))
                       => (activeCount > 0 /\ activeCount' = activeCount - 1)
          /\ \A t \in Threads :
               /\ (pc[t] = "validating" /\ pc'[t] # "validating")
                     => activeCount > 0
               /\ (pc[t] = "validating" /\ pc'[t] = "idle"
                                        /\ lastOp'.res = "PoolShutdown")
                     => activeCount' = activeCount - 1
               /\ (pc[t] = "creating" /\ pc'[t] # "creating")
                     => (pendingCreates > 0
                         /\ pendingCreates' = pendingCreates - 1)]_vars

\* a failed validation has just given its slot back while another call is
\* inside createConnection and a lease is out
FloorGuardsNeverExercisedWitness ==
    /\ lastOp = Op("afterValidate", "retry")
    /\ pendingCreates > 0
    /\ HeldLeases # {}
    /\ activeCount = Cardinality(HeldLeases)
====
